---- MODULE Spec2Model ----
(***************************************************************************)
(* Model of tutorials/source-modeling/plot_fix_bem_in_blender.py: a linear *)
(* script that exports two BEM surfaces of the 'sample' subject as .obj    *)
(* files, perturbs and restores vertex 0 of the inner skull, backs the     *)
(* original inner skull up and overwrites it with the fixed surface.       *)
(*                                                                         *)
(* State: the file system below data_path (files and directories), the     *)
(* script's variables coords, faces and bem_surfaces, and the position of  *)
(* the interpreter in the script.  Coordinates are exact rationals         *)
(* <<numerator, denominator>> so that "*= 1.1" and "/= 1.1" are computed.  *)
(***************************************************************************)
EXTENDS Integers, Sequences, FiniteSets, TLC

\* ------------------------------------------------------------------ bounds
\* number of vertices of a modelled surface
NVert == 3
\* integer coordinates of the input surfaces range over -1 .. MaxCoord
MaxCoord == 1

\* ------------------------------------------------------- exact arithmetic
Abs(n) == IF n < 0 THEN -n ELSE n

RECURSIVE GCD(_, _)
GCD(a, b) == IF b = 0 THEN a ELSE GCD(b, a % b)

\* the rational n/d (d > 0) in lowest terms
Frac(n, d) == IF n = 0 THEN <<0, 1>>
              ELSE LET g == GCD(Abs(n), d) IN <<n \div g, d \div g>>

\* x * 1.1
Times1p1(x) == Frac(x[1] * 11, x[2] * 10)

\* x / 1.1
Div1p1(x) == Frac(x[1] * 10, x[2] * 11)

\* coords[i] *= 1.1 : numpy scales the whole row (x, y, z) of vertex i
ScaleRow(c, i) == [c EXCEPT ![i] = [k \in 1..3 |-> Times1p1(c[i][k])]]

\* coords[i] /= 1.1
UnscaleRow(c, i) == [c EXCEPT ![i] = [k \in 1..3 |-> Div1p1(c[i][k])]]

\* ------------------------------------------------------------------ paths
\* op.join: a path is the tuple of its components
join(dir, name) == Append(dir, name)

data_path == <<"MNE-sample-data">>
subject == "sample"
subjects_dir == join(data_path, "subjects")
bem_dir == join(join(subjects_dir, "sample"), "bem")
plots_dir == join(join(subjects_dir, "sample"), "plots")
conv_dir == join(join(subjects_dir, "sample"), "conv")
\* the folder the tutorial text of lines 166-170 names
surf_dir == join(join(subjects_dir, "sample"), "surf")
plot_name == join(plots_dir, "sample_BEM")

dirname(p) == SubSeq(p, 1, Len(p) - 1)
basename(p) == p[Len(p)]

inner_surf == join(bem_dir, "inner_skull.surf")
outer_surf == join(bem_dir, "outer_skull.surf")
inner_orig == join(bem_dir, "inner_skull_orig.surf")
inner_obj == join(conv_dir, "inner_skull.obj")
outer_obj == join(conv_dir, "outer_skull.obj")
fixed_obj == join(conv_dir, "inner_skull_fixed.obj")

Paths == {join(bem_dir, "inner_skull.surf"), join(bem_dir, "outer_skull.surf"),
          join(bem_dir, "inner_skull_orig.surf"),
          join(surf_dir, "inner_skull.surf"),
          join(conv_dir, "inner_skull.obj"), join(conv_dir, "outer_skull.obj"),
          join(conv_dir, "inner_skull_fixed.obj"), plot_name}

\* ----------------------------------------------------- surface file codec
NoFile == [fmt |-> "none"]

IsObj(fname) == basename(fname) \in
                  {"inner_skull.obj", "outer_skull.obj", "inner_skull_fixed.obj"}

\* mne.write_surface: the bytes written for (coords, faces) under fname;
\* a Wavefront .obj numbers the vertices of a face from 1, a FreeSurfer
\* .surf from 0
write_surface(fname, c, f) ==
    IF IsObj(fname)
    THEN [fmt |-> "obj", v |-> c,
          f |-> [j \in DOMAIN f |-> [k \in 1..3 |-> f[j][k] + 1]]]
    ELSE [fmt |-> "surf", coords |-> c, faces |-> f]

\* mne.read_surface: (coords, faces) decoded from the file content
read_surface(content) ==
    IF content.fmt = "obj"
    THEN <<content.v,
           [j \in DOMAIN content.f |-> [k \in 1..3 |-> content.f[j][k] - 1]]>>
    ELSE <<content.coords, content.faces>>

\* ----------------------------------------------------------------- inputs
Coord == (-1)..MaxCoord

\* a bounded family of 3-D points with integer coordinates
Points == {<<<<x, 1>>, <<y, 1>>, <<x - y, 1>>>> : x \in Coord, y \in Coord}

\* inner skull vertex arrays, indexed from 0 as in the script: vertices 0
\* and 1 range over Points, the remaining ones are fixed and distinct
CoordArrays == {[i \in 0..(NVert - 1) |->
                   IF i = 0 THEN p
                   ELSE IF i = 1 THEN q
                   ELSE <<<<i, 1>>, <<-i, 1>>, <<1, 1>>>>] :
                  p \in Points, q \in Points}

FaceLists == {<< <<0, 1, 2>> >>, << <<0, 2, 1>>, <<0, 1, 2>> >>}

\* outer skull surfaces: every vertex of the array drawn from one axis
OuterArrays == {[i \in 0..(NVert - 1) |-> <<<<2 * x + i, 1>>, <<0, 1>>, <<x, 1>>>>] :
                  x \in Coord}

\* ------------------------------------------------------------------ state
\* bem_surfaces before line 42 has run
NoFigure == [subject |-> "none"]

VARIABLES fs, dirs, coords, faces, bem_surfaces, pc, status, written, fs0

vars == <<fs, dirs, coords, faces, bem_surfaces, pc, status, written, fs0>>

\* the statements of the script, with the overwrite placed before the backup
ScriptOverwriteFirst ==
          <<"plot_bem", "makedirs_plots", "savefig", "makedirs_conv",
            "read_inner", "perturb", "write_inner_obj",
            "read_outer", "write_outer_obj",
            "read_inner_obj", "move_back", "write_fixed_obj",
            "read_fixed_obj", "overwrite", "backup">>

\* the statements of the script, in program order
Script == <<"plot_bem", "makedirs_plots", "savefig", "makedirs_conv",
            "read_inner", "perturb", "write_inner_obj",
            "read_outer", "write_outer_obj",
            "read_inner_obj", "move_back", "write_fixed_obj",
            "read_fixed_obj", "backup", "overwrite">>

Pos(label) == CHOOSE i \in 1..Len(Script) : Script[i] = label

\* a dataset as downloaded: only the two BEM surfaces the script names
FreshDataset(ic, ifc, oc) ==
    [p \in Paths |->
       IF p = join(bem_dir, "inner_skull.surf")
         THEN write_surface(p, ic, ifc)
       ELSE IF p = join(bem_dir, "outer_skull.surf")
         THEN write_surface(p, oc, << <<0, 1, 2>> >>)
       ELSE NoFile]

\* a dataset on which an earlier session left files behind
UsedDataset(ic, ifc, oc) ==
    [p \in Paths |->
       IF p \in {join(conv_dir, "inner_skull.obj"), join(conv_dir, "outer_skull.obj"),
                 join(conv_dir, "inner_skull_fixed.obj"),
                 join(bem_dir, "inner_skull_orig.surf")}
         THEN write_surface(p, oc, << <<0, 2, 1>> >>)
       ELSE FreshDataset(ic, ifc, oc)[p]]

Init ==
    /\ \E ic \in CoordArrays, ifc \in FaceLists, oc \in OuterArrays :
         \/ /\ fs = FreshDataset(ic, ifc, oc)
            /\ dirs = {bem_dir, surf_dir}
         \/ /\ fs = UsedDataset(ic, ifc, oc)
            /\ dirs = {bem_dir, surf_dir, conv_dir}
    /\ fs0 = fs
    /\ coords = <<>>
    /\ faces = <<>>
    /\ bem_surfaces = NoFigure
    /\ pc = 1
    /\ status = "running"
    /\ written = {}

\* -------------------------------------------------------- statement steps
At(label) == status = "running" /\ Script[pc] = label

Advance == /\ pc' = pc + 1
           /\ status' = IF pc = Len(Script) THEN "done" ELSE "running"

\* an uncaught exception ends the run
Raise == /\ status' = "error"
         /\ UNCHANGED <<fs, dirs, coords, faces, bem_surfaces, pc, written>>

\* coords, faces = mne.read_surface(fname)
ReadInto(fname) ==
    IF fs[fname] = NoFile
    THEN Raise
    ELSE /\ coords' = read_surface(fs[fname])[1]
         /\ faces' = read_surface(fs[fname])[2]
         /\ Advance
         /\ UNCHANGED <<fs, dirs, bem_surfaces, written>>

\* mne.write_surface(fname, coords, faces, overwrite=True)
WriteFrom(fname) ==
    IF dirname(fname) \notin dirs
    THEN Raise
    ELSE /\ fs' = [fs EXCEPT ![fname] = write_surface(fname, coords, faces)]
         /\ written' = written \cup {fname}
         /\ Advance
         /\ UNCHANGED <<dirs, coords, faces, bem_surfaces>>

\* os.makedirs(d, exist_ok=True)
MakeDirs(d) ==
    /\ dirs' = dirs \cup {d}
    /\ Advance
    /\ UNCHANGED <<fs, coords, faces, bem_surfaces, written>>

\* line 42
PlotBem ==
    /\ At("plot_bem")
    /\ bem_surfaces' = [subject |-> subject, brain_surfaces |-> "white",
                        orientation |-> "coronal"]
    /\ Advance
    /\ UNCHANGED <<fs, dirs, coords, faces, written, fs0>>

\* line 47
MakePlotsDir == At("makedirs_plots") /\ MakeDirs(plots_dir) /\ UNCHANGED fs0

\* line 51
SaveFig ==
    /\ At("savefig")
    /\ IF dirname(plot_name) \notin dirs
       THEN Raise
       ELSE /\ fs' = [fs EXCEPT ![plot_name] = [fmt |-> "eps", fig |-> bem_surfaces]]
            /\ written' = written \cup {plot_name}
            /\ Advance
            /\ UNCHANGED <<dirs, coords, faces, bem_surfaces>>
    /\ UNCHANGED fs0

\* line 69
MakeConvDir == At("makedirs_conv") /\ MakeDirs(conv_dir) /\ UNCHANGED fs0

\* line 72
ReadInner ==
    /\ At("read_inner")
    /\ ReadInto(join(bem_dir, "inner_skull.surf"))
    /\ UNCHANGED fs0

\* line 73, with every row scaled instead of row 0
PerturbAllRows ==
    /\ At("perturb")
    /\ coords' = [i \in DOMAIN coords |-> ScaleRow(coords, i)[i]]
    /\ Advance
    /\ UNCHANGED <<fs, dirs, faces, bem_surfaces, written, fs0>>

\* line 73
Perturb ==
    /\ At("perturb")
    /\ coords' = ScaleRow(coords, 0)
    /\ Advance
    /\ UNCHANGED <<fs, dirs, faces, bem_surfaces, written, fs0>>

\* lines 77-78
WriteInnerObj ==
    /\ At("write_inner_obj")
    /\ WriteFrom(join(conv_dir, "inner_skull.obj"))
    /\ UNCHANGED fs0

\* line 81, with the read left out
SkipReadOuter ==
    /\ At("read_outer")
    /\ Advance
    /\ UNCHANGED <<fs, dirs, coords, faces, bem_surfaces, written, fs0>>

\* line 81
ReadOuter ==
    /\ At("read_outer")
    /\ ReadInto(join(bem_dir, "outer_skull.surf"))
    /\ UNCHANGED fs0

\* lines 82-83
WriteOuterObj ==
    /\ At("write_outer_obj")
    /\ WriteFrom(join(conv_dir, "outer_skull.obj"))
    /\ UNCHANGED fs0

\* line 160
ReadInnerObj ==
    /\ At("read_inner_obj")
    /\ ReadInto(join(conv_dir, "inner_skull.obj"))
    /\ UNCHANGED fs0

\* line 161, with the wrong row moved back
MoveBackRow1 ==
    /\ At("move_back")
    /\ coords' = UnscaleRow(coords, 1)
    /\ Advance
    /\ UNCHANGED <<fs, dirs, faces, bem_surfaces, written, fs0>>

\* line 161
MoveBack ==
    /\ At("move_back")
    /\ coords' = UnscaleRow(coords, 0)
    /\ Advance
    /\ UNCHANGED <<fs, dirs, faces, bem_surfaces, written, fs0>>

\* lines 162-163, with the fixed surface written over the export
WriteFixedOverExport ==
    /\ At("write_fixed_obj")
    /\ WriteFrom(join(conv_dir, "inner_skull.obj"))
    /\ UNCHANGED fs0

\* lines 162-163
WriteFixedObj ==
    /\ At("write_fixed_obj")
    /\ WriteFrom(join(conv_dir, "inner_skull_fixed.obj"))
    /\ UNCHANGED fs0

\* line 173
ReadFixedObj ==
    /\ At("read_fixed_obj")
    /\ ReadInto(join(conv_dir, "inner_skull_fixed.obj"))
    /\ UNCHANGED fs0

\* shutil.copy(src, dst): dst gets the bytes of src
Copy(src, dst) ==
    IF fs[src] = NoFile \/ dirname(dst) \notin dirs
    THEN Raise
    ELSE /\ fs' = [fs EXCEPT ![dst] = fs[src]]
         /\ written' = written \cup {dst}
         /\ Advance
         /\ UNCHANGED <<dirs, coords, faces, bem_surfaces>>

\* lines 176-177
Backup ==
    /\ At("backup")
    /\ Copy(join(bem_dir, "inner_skull.surf"), join(bem_dir, "inner_skull_orig.surf"))
    /\ UNCHANGED fs0

\* lines 180-181
Overwrite ==
    /\ At("overwrite")
    /\ WriteFrom(join(bem_dir, "inner_skull.surf"))
    /\ UNCHANGED fs0

Next ==
    \/ PlotBem
    \/ MakePlotsDir
    \/ SaveFig
    \/ MakeConvDir
    \/ ReadInner
    \/ Perturb
    \/ WriteInnerObj
    \/ ReadOuter
    \/ WriteOuterObj
    \/ ReadInnerObj
    \/ MoveBack
    \/ WriteFixedObj
    \/ ReadFixedObj
    \/ Backup
    \/ Overwrite

Spec == Init /\ [][Next]_vars

\* ----------------------------------------------------------- properties

\* C1: backup before overwrite.  At every point of a run at least one of
\* bem/inner_skull.surf and bem/inner_skull_orig.surf holds the content
\* inner_skull.surf had when the run started; once inner_skull.surf has been
\* written by the run the backup already holds that content (the copy comes
\* before the write); at the end of the run inner_skull_orig.surf equals it.
C1_BackupBeforeOverwrite ==
    /\ fs[inner_surf] = fs0[inner_surf] \/ fs[inner_orig] = fs0[inner_surf]
    /\ inner_surf \in written => fs[inner_orig] = fs0[inner_surf]
    /\ status = "done" => fs[inner_orig] = fs0[inner_surf]

\* a finished run that replaced an older inner_skull_orig.surf by the backup
C1_Witness ==
    /\ status = "done"
    /\ inner_surf \in written
    /\ fs0[inner_orig] # NoFile
    /\ fs0[inner_orig] # fs0[inner_surf]
    /\ fs[inner_orig] = fs0[inner_surf]

\* C2: the final write of the script puts the fixed inner skull surface at
\* surf/inner_skull.surf of the subject.
C2_SavedInSurfFolder ==
    status = "done" =>
        fs[join(surf_dir, "inner_skull.surf")] =
            write_surface(join(surf_dir, "inner_skull.surf"), coords, faces)

\* the dataset the run started on holds the two BEM surfaces and nothing else
FreshStart == \A p \in Paths : fs0[p] # NoFile <=> p \in {inner_surf, outer_surf}

Exported == read_surface(fs[inner_obj])
Original == read_surface(fs0[inner_surf])

\* C4: creating the problem moves exactly one vertex.  Once the export step
\* has run, conv/inner_skull.obj has the faces of the original inner skull,
\* the original coordinates of every vertex but vertex 0, and for vertex 0
\* the original coordinates times 1.1; bem/inner_skull.surf is unchanged up
\* to the final overwrite.
C4_OneVertexMoved ==
    /\ pc > Pos("write_inner_obj") =>
          /\ Exported[2] = Original[2]
          /\ DOMAIN Exported[1] = DOMAIN Original[1]
          /\ \A i \in DOMAIN Original[1] :
                i # 0 => Exported[1][i] = Original[1][i]
          /\ \A k \in 1..3 : Exported[1][0][k] = Times1p1(Original[1][0][k])
    /\ pc <= Pos("overwrite") => fs[inner_surf] = fs0[inner_surf]

\* the export has run on a surface whose vertex 0 and vertex 1 are off the
\* origin: vertex 0 has moved, vertex 1 has not
C4_Witness ==
    /\ pc > Pos("write_inner_obj")
    /\ Original[1][1] # <<<<0, 1>>, <<0, 1>>, <<0, 1>>>>
    /\ Exported[1][0] # Original[1][0]
    /\ Exported[1][1] = Original[1][1]

\* C5: the simulated edit undoes the perturbation.  At the end of a run
\* bem/inner_skull.surf decodes to the faces and the coordinates of every
\* vertex, vertex 0 included, that it had when the run started.
C5_EditUndoesPerturbation ==
    status = "done" =>
        /\ read_surface(fs[inner_surf])[2] = Original[2]
        /\ \A i \in DOMAIN Original[1] :
              read_surface(fs[inner_surf])[1][i] = Original[1][i]
        /\ DOMAIN read_surface(fs[inner_surf])[1] = DOMAIN Original[1]

\* a finished run whose export had vertex 0 displaced and whose final
\* surface comes from the overwrite
C5_Witness ==
    /\ status = "done"
    /\ inner_surf \in written
    /\ Exported[1][0] # Original[1][0]
    /\ read_surface(fs[inner_surf])[1][0] = Original[1][0]

\* C6: the outer skull is converted without alteration.  Once written,
\* conv/outer_skull.obj decodes to the coordinates and faces of
\* bem/outer_skull.surf, and bem/outer_skull.surf is never written.
C6_OuterSkullUnaltered ==
    /\ pc > Pos("write_outer_obj") =>
          read_surface(fs[outer_obj]) = read_surface(fs0[outer_surf])
    /\ fs[outer_surf] = fs0[outer_surf]
    /\ outer_surf \notin written

\* both exports exist, written by this run, and hold different surfaces
C6_Witness ==
    /\ pc > Pos("write_outer_obj")
    /\ {inner_obj, outer_obj} \subseteq written
    /\ read_surface(fs[outer_obj])[1] # Exported[1]
    /\ Exported[1][0] # Original[1][0]

====
